---------------------------- MODULE Spec2Model ----------------------------
(***************************************************************************)
(* A model of nginx_cache_file_info.py: the decoder of an nginx cache      *)
(* file (parse_nginx_cache_file), the in-place patch of its valid_sec      *)
(* field (set_expire_nginx_cache_file) and the command line loop (main).   *)
(*                                                                         *)
(* Representation.  A file is the sequence of its bytes (0..255).  TLC's   *)
(* integers are 32 bits wide, so an unsigned integer wider than 16 bits    *)
(* is kept as its base-256 numeral, least significant digit first: the     *)
(* numeral of a '<Q' field is exactly its 8 bytes, 2^64 - 1 is eight       *)
(* digits 255, and order and arithmetic are digit-wise with carry.  Text   *)
(* is the sequence of its code points.  Python's None is <<>> and a        *)
(* present value x is <<x>>.  A naive datetime is                          *)
(* [days, sod, us]: days since 0001-01-01 (toordinal() - 1), the second    *)
(* of the day and the microsecond.  The local time zone is a fixed offset  *)
(* tz (seconds east of UTC) and Python 3 semantics are modelled.           *)
(***************************************************************************)
EXTENDS Integers, Sequences, FiniteSets, TLC

-----------------------------------------------------------------------------
(* Numerals: base-256, little-endian, fixed width.                         *)

Min(a, b) == IF a < b THEN a ELSE b

Zeros(n) == [i \in 1..n |-> 0]

\* The numeral of width n of an integer 0 <= v < 2^31.
NumOfInt(v, n) ==
    [i \in 1..n |-> IF i = 1 THEN v % 256
                    ELSE IF i = 2 THEN (v \div 256) % 256
                    ELSE IF i = 3 THEN (v \div 65536) % 256
                    ELSE IF i = 4 THEN v \div 16777216
                    ELSE 0]

\* The integer of a numeral below 2^31.
NumToInt(a) ==
    LET d(i) == IF i <= Len(a) THEN a[i] ELSE 0
    IN  d(1) + 256 * d(2) + 65536 * d(3) + 16777216 * d(4)

\* a < b for numerals of the same width.
NumLess(a, b) ==
    \E i \in 1..Len(a) : /\ a[i] < b[i]
                         /\ \A j \in (i+1)..Len(a) : a[j] = b[j]

\* a + b + c: Len(a) digits followed by the carry out.
RECURSIVE NumAddC(_, _, _)
NumAddC(a, b, c) ==
    IF a = <<>> THEN <<c>>
    ELSE LET s == a[1] + b[1] + c
         IN  <<s % 256>> \o NumAddC(Tail(a), Tail(b), s \div 256)

NumAdd(a, b) == SubSeq(NumAddC(a, b, 0), 1, Len(a))

\* a - b - br for a >= b: Len(a) digits.
RECURSIVE NumSubB(_, _, _)
NumSubB(a, b, br) ==
    IF a = <<>> THEN <<>>
    ELSE LET s == a[1] - b[1] - br
         IN  <<(s + 256) % 256>> \o NumSubB(Tail(a), Tail(b), IF s < 0 THEN 1 ELSE 0)

NumSub(a, b) == NumSubB(a, b, 0)

\* a * k + c for a small k, truncated to Len(a) digits.
RECURSIVE NumMulC(_, _, _)
NumMulC(a, k, c) ==
    IF a = <<>> THEN <<>>
    ELSE LET s == a[1] * k + c
         IN  <<s % 256>> \o NumMulC(Tail(a), k, s \div 256)

NumMul(a, k) == NumMulC(a, k, 0)

\* Long division of a by a small k, from the most significant digit:
\* the remainder left after the digits i..Len(a).
RECURSIVE NumRem(_, _, _)
NumRem(a, k, i) ==
    IF i > Len(a) THEN 0 ELSE (NumRem(a, k, i + 1) * 256 + a[i]) % k

NumDiv(a, k) ==
    [i \in 1..Len(a) |-> (NumRem(a, k, i + 1) * 256 + a[i]) \div k]

NumMod(a, k) == NumRem(a, k, 1)

-----------------------------------------------------------------------------
(* The Python library calls the program makes.                             *)

None == <<>>

Some(x) == <<x>>

\* A call's outcome: the value returned, or the exception raised.
Ret(v) == [exc |-> "", val |-> v]

Exc(e) == [exc |-> e, val |-> None]

\* d[a:b] for 0 <= a, 0 <= b: Python clips a slice to the sequence.
Slice(d, a, b) == SubSeq(d, a + 1, Min(b, Len(d)))

\* set(bytes) == {0}: at least one byte, and every byte zero.
AllZero(b) == b # <<>> /\ \A i \in 1..Len(b) : b[i] = 0

\* bytes.decode('ascii'): the code points, or UnicodeDecodeError at a byte >= 128.
decode_ascii(b) ==
    IF \A i \in 1..Len(b) : b[i] < 128 THEN Ret(b) ELSE Exc("UnicodeDecodeError")

\* struct.calcsize of a '<' format, given as its fields' widths: no padding.
RECURSIVE calcsize(_)
calcsize(fmt) == IF fmt = <<>> THEN 0 ELSE fmt[1] + calcsize(Tail(fmt))

\* One little-endian unsigned field: an integer up to 2 bytes, a numeral beyond.
unpack_field(buf, off, w) ==
    LET b == SubSeq(buf, off + 1, off + w)
    IN  IF w <= 2 THEN NumToInt(b) ELSE b

\* struct.unpack_from(fmt, buf, offset): struct.error when the buffer is short.
unpack_from(fmt, buf, offset) ==
    IF Len(buf) - offset < calcsize(fmt) THEN Exc("struct.error")
    ELSE Ret([i \in 1..Len(fmt) |->
                unpack_field(buf, offset + calcsize(SubSeq(fmt, 1, i - 1)), fmt[i])])

SecondsPerDay == 86400

\* datetime(1970, 1, 1).toordinal() - 1
EpochDays == 719162

\* datetime.max.toordinal() - 1: 9999-12-31
MaxDays == 3652058

\* Seconds from 0001-01-01T00:00:00 local time to the instant t seconds after
\* the epoch, in the zone tz seconds east of UTC (|tz| < one day).
LocalSeconds(t, tz) ==
    NumAdd(NumAdd(t, NumMul(NumOfInt(EpochDays - 1, 8), SecondsPerDay)),
           NumOfInt(SecondsPerDay + tz, 8))

\* datetime.fromtimestamp(t) of an integer 0 <= t < 2^64: the local naive
\* datetime; OverflowError beyond the platform's signed 64-bit time_t,
\* ValueError (OSError when localtime itself overflows) beyond year 9999.
fromtimestamp(t, tz) ==
    IF t[8] >= 128 THEN Exc("OverflowError")
    ELSE LET u == LocalSeconds(t, tz)
             days == NumDiv(u, SecondsPerDay)
         IN  IF NumLess(NumOfInt(MaxDays, 8), days) THEN Exc("ValueError")
             ELSE Ret([days |-> NumToInt(days),
                       sod  |-> NumMod(u, SecondsPerDay),
                       us   |-> 0])

\* int(time.mktime(dt.timetuple())): the whole seconds since the epoch of the
\* local time dt, a signed integer [neg, mag]; timetuple() drops dt.us.
mktime(dt, tz) ==
    LET u == NumAdd(NumMul(NumOfInt(dt.days, 8), SecondsPerDay), NumOfInt(dt.sod, 8))
        e == LocalSeconds(Zeros(8), tz)
    IN  IF NumLess(u, e) THEN [neg |-> TRUE, mag |-> NumSub(e, u)]
        ELSE [neg |-> FALSE, mag |-> NumSub(u, e)]

\* struct.pack('<Q', v): the 8 bytes, or struct.error for a negative v.
pack_Q(v) == IF v.neg THEN Exc("struct.error") ELSE Ret(v.mag)

\* f.seek(off); f.write(b) on a file opened 'r+b': bytes off..off+len(b)-1 are
\* replaced, a hole before off is zero-filled, nothing is truncated.
WriteAt(d, off, b) ==
    [i \in 1..(IF Len(d) > off + Len(b) THEN Len(d) ELSE off + Len(b)) |->
        IF i > off /\ i <= off + Len(b) THEN b[i - off]
        ELSE IF i <= Len(d) THEN d[i] ELSE 0]

-----------------------------------------------------------------------------
(* nginx_cache_file_info.py                                                *)

string_or_none(bytes) ==
    IF AllZero(bytes) THEN Ret(None)
    ELSE LET r == decode_ascii(bytes)
         IN  IF r.exc # "" THEN r ELSE Ret(Some(r.val))

timet_max == [i \in 1..8 |-> 255]

datetime_or_none(timet, tz) ==
    IF timet = timet_max THEN Ret(None)
    ELSE LET r == fromtimestamp(timet, tz)
         IN  IF r.exc # "" THEN r ELSE Ret(Some(r.val))

NGINX_CACHE_HEADER_SIZE == 336

\* formats = ('<QQQQQQIHHHB', 'c', 'B', 'c', 'c',), as field widths
formats == << <<8, 8, 8, 8, 8, 8, 4, 2, 2, 2, 1>>, <<1>>, <<1>>, <<1>>, <<1>> >>

ETAG_LEN == 128

VARY_LEN == 128

KEY_LEN == 16

SupportedVersion == NumOfInt(5, 8)

\* A slip of the version test: fields[0] > 5 raises.
version_ok_at_most(version) == ~NumLess(SupportedVersion, version)

\* fields[0] != 5 raises
version_ok(version) == version = SupportedVersion

\* "\nKEY: "
KeyPrefix == <<10, 75, 69, 89, 58, 32>>

\* A slip of the key's asserts: the last character is not looked at.
key_asserts_prefix_only(key) ==
    IF Slice(key, 0, 6) # KeyPrefix THEN "AssertionError" ELSE ""

\* assert key[:6] == '\nKEY: '; assert key[-1] == '\n'
key_asserts(key) ==
    IF Slice(key, 0, 6) # KeyPrefix THEN "AssertionError"
    ELSE IF key = <<>> THEN "IndexError"
    ELSE IF key[Len(key)] # 10 THEN "AssertionError"
    ELSE ""

\* struct.unpack_from(formats[2], header)[0]: no offset is passed
unpack_vary_len(header, offset) == unpack_from(formats[3], header, 0).val[1]

\* What parse_nginx_cache_file raises: [exc, warned], exc "" when it returns.
\* warned: the 'Unexpected non-zero bytes' line was printed to stderr.
ParseRaise(e, w) == [exc |-> e, warned |-> w]

parse_nginx_cache_file(d, tz) ==
    LET header == Slice(d, 0, NGINX_CACHE_HEADER_SIZE)
        u      == unpack_from(formats[1], header, 0)
        f      == u.val
        offset == calcsize(formats[1])
        v1     == datetime_or_none(f[2], tz)
        v4     == datetime_or_none(f[5], tz)
        v5     == datetime_or_none(f[6], tz)
        etag   == string_or_none(Slice(header, offset, offset + ETAG_LEN))
        off12  == offset + ETAG_LEN
        vlen   == unpack_vary_len(header, off12)
        off13  == off12 + calcsize(formats[3])
        vary   == string_or_none(Slice(header, off13, off13 + VARY_LEN))
        off14  == off13 + VARY_LEN
        variant == string_or_none(Slice(header, off14, off14 + KEY_LEN))
        off15  == off14 + KEY_LEN
        extra  == Slice(d, off15, NGINX_CACHE_HEADER_SIZE)
        warned == ~AllZero(extra)
        hs     == f[9]
        bs     == f[10]
        key    == decode_ascii(Slice(d, NGINX_CACHE_HEADER_SIZE, hs))
        http_header == decode_ascii(Slice(d, hs, bs))
    IN  IF u.exc # "" THEN ParseRaise(u.exc, FALSE)
        ELSE IF ~version_ok(f[1]) THEN ParseRaise("Exception", FALSE)
        ELSE IF v1.exc # "" THEN ParseRaise(v1.exc, FALSE)
        ELSE IF v4.exc # "" THEN ParseRaise(v4.exc, FALSE)
        ELSE IF v5.exc # "" THEN ParseRaise(v5.exc, FALSE)
        ELSE IF etag.exc # "" THEN ParseRaise(etag.exc, FALSE)
        ELSE IF vary.exc # "" THEN ParseRaise(vary.exc, FALSE)
        ELSE IF variant.exc # "" THEN ParseRaise(variant.exc, FALSE)
        ELSE IF NGINX_CACHE_HEADER_SIZE - off15 # 4 THEN ParseRaise("AssertionError", FALSE)
        ELSE IF key.exc # "" THEN ParseRaise(key.exc, warned)
        ELSE IF key_asserts(key.val) # "" THEN ParseRaise(key_asserts(key.val), warned)
        ELSE IF http_header.exc # "" THEN ParseRaise(http_header.exc, warned)
        ELSE [exc |-> "", warned |-> warned,
              hdr |-> [version |-> f[1], valid_sec |-> v1.val,
                       updating_sec |-> f[3], error_sec |-> f[4],
                       last_modified |-> v4.val, date |-> v5.val,
                       crc32 |-> f[7], valid_msec |-> f[8],
                       header_start |-> hs, body_start |-> bs,
                       etag_len |-> f[11], etag |-> etag.val,
                       vary_len |-> vlen, vary |-> vary.val,
                       variant |-> variant.val],
              key |-> SubSeq(key.val, 7, Len(key.val) - 1),
              http_header |-> http_header.val,
              http_body |-> Slice(d, bs, Len(d))]

\* The outcome of set_expire_nginx_cache_file on an existing file with
\* contents d: [exc, data], data the contents when the file is closed.
set_expire_nginx_cache_file(d, expiredt, tz) ==
    LET valid_sec == mktime(expiredt, tz)
        packed    == pack_Q(valid_sec)
    IN  IF packed.exc # "" THEN [exc |-> packed.exc, data |-> d]
        ELSE [exc |-> "", data |-> WriteAt(d, 8, packed.val)]

\* The date formats of parse_date_string, a directive or a literal each.
DateFormats ==
    << <<"Y", "-", "m", "-", "d", "T", "H", ":", "M", ":", "S">>,
       <<"Y", "-", "m", "-", "d", " ", "H", ":", "M", ":", "S">>,
       <<"Y", "-", "m", "-", "d">> >>

DigitChars == {"0", "1", "2", "3", "4", "5", "6", "7", "8", "9"}

DigitVal(c) ==
    CASE c = "0" -> 0 [] c = "1" -> 1 [] c = "2" -> 2 [] c = "3" -> 3 [] c = "4" -> 4
      [] c = "5" -> 5 [] c = "6" -> 6 [] c = "7" -> 7 [] c = "8" -> 8 [] c = "9" -> 9

\* The number of leading digits of s, up to n.
RECURSIVE LeadDigits(_, _)
LeadDigits(s, n) ==
    IF n = 0 \/ s = <<>> \/ s[1] \notin DigitChars THEN 0
    ELSE 1 + LeadDigits(Tail(s), n - 1)

RECURSIVE LeadSpaces(_)
LeadSpaces(s) == IF s = <<>> \/ s[1] # " " THEN 0 ELSE 1 + LeadSpaces(Tail(s))

RECURSIVE DecimalVal(_)
DecimalVal(s) == IF s = <<>> THEN 0 ELSE 10 * DecimalVal(SubSeq(s, 1, Len(s) - 1)) + DigitVal(s[Len(s)])

\* A literal of a format matches case-insensitively.
LiteralMatches(lit, c) == c = lit \/ (lit = "T" /\ c = "t")

\* The regular expression of strptime on s: %Y is four digits, another
\* directive one or two digits followed by the next literal, a space of the
\* format one or more spaces; got is the directives' values so far.
\* <<>> when s does not match.
RECURSIVE MatchFormat(_, _, _)
MatchFormat(s, fmt, got) ==
    IF fmt = <<>> THEN (IF s = <<>> THEN <<got>> ELSE <<>>)
    ELSE IF fmt[1] = "Y"
    THEN IF LeadDigits(s, 4) = 4
         THEN MatchFormat(SubSeq(s, 5, Len(s)), Tail(fmt),
                          got @@ ("Y" :> DecimalVal(SubSeq(s, 1, 4))))
         ELSE <<>>
    ELSE IF fmt[1] \in {"m", "d", "H", "M", "S"}
    THEN LET n == LeadDigits(s, 2)
         IN  IF n = 0 THEN <<>>
             ELSE MatchFormat(SubSeq(s, n + 1, Len(s)), Tail(fmt),
                              got @@ (fmt[1] :> DecimalVal(SubSeq(s, 1, n))))
    ELSE IF fmt[1] = " "
    THEN IF LeadSpaces(s) = 0 THEN <<>>
         ELSE MatchFormat(SubSeq(s, LeadSpaces(s) + 1, Len(s)), Tail(fmt), got)
    ELSE IF s # <<>> /\ LiteralMatches(fmt[1], s[1])
    THEN MatchFormat(Tail(s), Tail(fmt), got)
    ELSE <<>>

IsLeap(y) == y % 4 = 0 /\ (y % 100 # 0 \/ y % 400 = 0)

DaysInMonth(y, m) ==
    IF m = 2 THEN (IF IsLeap(y) THEN 29 ELSE 28)
    ELSE IF m \in {4, 6, 9, 11} THEN 30 ELSE 31

RECURSIVE DaysBeforeMonth(_, _)
DaysBeforeMonth(y, m) ==
    IF m = 1 THEN 0 ELSE DaysBeforeMonth(y, m - 1) + DaysInMonth(y, m - 1)

DaysBeforeYear(y) ==
    (y - 1) * 365 + (y - 1) \div 4 - (y - 1) \div 100 + (y - 1) \div 400

\* datetime.strptime(s, fmt): the datetime, or ValueError when s does not
\* match fmt or names no date and time of day.
strptime(s, fmt) ==
    LET m == MatchFormat(s, fmt, <<>>)
        g == m[1] @@ [k \in {"H", "M", "S"} |-> 0]
    IN  IF m = <<>> THEN Exc("ValueError")
        ELSE IF \/ g["Y"] < 1 \/ g["m"] \notin 1..12
                \/ g["d"] < 1 \/ g["d"] > DaysInMonth(g["Y"], g["m"])
                \/ g["H"] > 23 \/ g["M"] > 59 \/ g["S"] > 59
        THEN Exc("ValueError")
        ELSE Ret([days |-> DaysBeforeYear(g["Y"]) + DaysBeforeMonth(g["Y"], g["m"])
                           + g["d"] - 1,
                  sod  |-> g["H"] * 3600 + g["M"] * 60 + g["S"],
                  us   |-> 0])

parse_date_string(s) ==
    IF strptime(s, DateFormats[1]).exc = "" THEN strptime(s, DateFormats[1])
    ELSE IF strptime(s, DateFormats[2]).exc = "" THEN strptime(s, DateFormats[2])
    ELSE IF strptime(s, DateFormats[3]).exc = "" THEN strptime(s, DateFormats[3])
    ELSE Exc("ValueError")

-----------------------------------------------------------------------------
(* Cache files to decode: ngx_http_file_cache_header_t, then the key       *)
(* region, the HTTP headers and the body.                                  *)

Pad(text, n) == text \o Zeros(n - Len(text))

\* The bytes of a file whose header holds the fields of r, cut to r.len
\* bytes when r.len >= 0.
MkFile(r) ==
    LET all == r.version \o r.valid_sec \o r.updating_sec \o r.error_sec
               \o r.last_modified \o r.date \o r.crc32
               \o NumOfInt(r.valid_msec, 2) \o NumOfInt(r.header_start, 2)
               \o NumOfInt(r.body_start, 2) \o <<r.etag_len>> \o r.etag
               \o <<r.vary_len>> \o r.vary \o r.variant \o r.pad
               \o r.key_region \o r.http \o r.body
    IN  IF r.len >= 0 THEN SubSeq(all, 1, r.len) ELSE all

\* A well-formed file: key "abc", headers "H: 1\r\n", body "xy",
\* valid_sec 1700000000, etag "x1" in quotes, no vary, variant "k".
BaseFile ==
    [version |-> NumOfInt(5, 8), valid_sec |-> <<0, 241, 83, 101, 0, 0, 0, 0>>,
     updating_sec |-> NumOfInt(7, 8), error_sec |-> timet_max,
     last_modified |-> <<0, 240, 83, 101, 0, 0, 0, 0>>,
     date |-> <<1, 240, 83, 101, 0, 0, 0, 0>>,
     crc32 |-> <<239, 190, 173, 222>>, valid_msec |-> 999,
     header_start |-> 346, body_start |-> 352, etag_len |-> 4,
     etag |-> Pad(<<34, 120, 49, 34>>, ETAG_LEN), vary_len |-> 0,
     vary |-> Zeros(VARY_LEN), variant |-> Pad(<<107>>, KEY_LEN),
     pad |-> Zeros(4),
     key_region |-> KeyPrefix \o <<97, 98, 99, 10>>,
     http |-> <<72, 58, 32, 49, 13, 10>>, body |-> <<120, 121>>, len |-> -1]

\* 2^64 - 2, 2^63, 2^40, and 253402300799 (9999-12-31T23:59:59 UTC)
BigTimes ==
    { <<254, 255, 255, 255, 255, 255, 255, 255>>, <<0, 0, 0, 0, 0, 0, 0, 128>>,
      <<0, 0, 0, 0, 0, 1, 0, 0>>, <<127, 65, 244, 255, 58, 0, 0, 0>> }

OtherVersions == { NumOfInt(0, 8), NumOfInt(4, 8), NumOfInt(6, 8), timet_max }

EtagBuffers ==
    { Zeros(ETAG_LEN), Pad(<<34, 120, 49, 34>>, ETAG_LEN), [i \in 1..ETAG_LEN |-> 65],
      Pad(<<0, 65>>, ETAG_LEN), Pad(<<65, 200>>, ETAG_LEN) }

VaryBuffers ==
    { Zeros(VARY_LEN), Pad(<<65, 99, 99, 101, 112, 116>>, VARY_LEN),
      Pad(<<255>>, VARY_LEN) }

VariantBuffers ==
    { Zeros(KEY_LEN), Pad(<<107>>, KEY_LEN), [i \in 1..KEY_LEN |-> 1],
      Pad(<<128, 1>>, KEY_LEN) }

\* header_start, body_start: in order, out of order, beyond the end of the
\* file, before the end of the header.
OffsetPairs ==
    { <<346, 352>>, <<352, 346>>, <<346, 400>>, <<400, 400>>, <<354, 65535>>,
      <<336, 352>>, <<340, 352>>, <<0, 352>>, <<346, 346>>, <<346, 0>> }

KeyRegions ==
    { KeyPrefix \o <<97, 98, 99, 10>>, <<10, 75, 69, 88, 58, 32, 97, 98, 99, 10>>,
      KeyPrefix \o <<97, 98, 99, 13>>, KeyPrefix \o <<97, 200, 99, 10>>,
      KeyPrefix \o <<10, 10, 10, 10>>, <<32>> \o KeyPrefix \o <<97, 98, 10>> }

Bodies == { <<>>, <<120, 121>>, <<120, 10>>, <<255, 0>> }

CutLengths == { 0, 8, 20, 58, 59, 200, 335, 336, 343, 345, 346, 353 }

FileRecords ==
    {[BaseFile EXCEPT !.version = v, !.len = n] :
        v \in OtherVersions \cup {BaseFile.version}, n \in {-1, 8, 20, 59}}
    \cup {[BaseFile EXCEPT !.version = v, !.valid_sec = t, !.etag = Pad(<<200>>, ETAG_LEN),
                           !.key_region = Zeros(10)] :
        v \in OtherVersions, t \in BigTimes}
    \cup {[BaseFile EXCEPT !.valid_sec = t] : t \in BigTimes \cup {Zeros(8), timet_max}}
    \cup {[BaseFile EXCEPT !.last_modified = t] : t \in BigTimes \cup {Zeros(8), timet_max}}
    \cup {[BaseFile EXCEPT !.date = t] : t \in BigTimes \cup {Zeros(8), timet_max}}
    \cup {[BaseFile EXCEPT !.etag = e, !.vary = v, !.variant = k] :
        e \in EtagBuffers, v \in VaryBuffers, k \in VariantBuffers}
    \cup {[BaseFile EXCEPT !.vary_len = n, !.etag_len = m] : n \in {0, 6, 255}, m \in {0, 128}}
    \cup {[BaseFile EXCEPT !.pad = <<0, 0, 1, 0>>, !.key_region = k] : k \in KeyRegions}
    \cup {[BaseFile EXCEPT !.header_start = o[1], !.body_start = o[2], !.body = b] :
        o \in OffsetPairs, b \in Bodies}
    \cup {[BaseFile EXCEPT !.key_region = KeyPrefix \o <<10>>, !.header_start = 343,
                           !.body_start = b] : b \in {343, 349}}
    \cup {[BaseFile EXCEPT !.http = <<72, 58, 32, 233, 13, 10>>, !.body = b] : b \in Bodies}
    \cup {[BaseFile EXCEPT !.len = n] : n \in CutLengths}

InputFiles == { MkFile(r) : r \in FileRecords }

\* The zones the program runs in: seconds east of UTC.
TimeZones == { -18000, 0, 3600 }

\* 1969-12-31T00:00:00, 1970-01-01T00:00:00, 2023-11-14T22:13:20.5,
\* 9999-12-31T23:59:59
TargetInstants ==
    { [days |-> EpochDays - 1, sod |-> 0, us |-> 0],
      [days |-> EpochDays, sod |-> 0, us |-> 0],
      [days |-> EpochDays + 19675, sod |-> 80000, us |-> 500000],
      [days |-> MaxDays, sod |-> 86399, us |-> 0] }

-----------------------------------------------------------------------------
(* State.                                                                  *)

VARIABLES
    tz,        \* the local zone of the process: seconds east of UTC
    fs,        \* the files: name -> [exists, data]
    cphase,    \* codec run: "start", "parsed", "patched", "reparsed"
    res,       \* codec run: what the last parse_nginx_cache_file returned or raised
    res0,      \* codec run: what the parse before the last patch returned or raised
    orig,      \* codec run: the file's bytes before the last patch
    target,    \* codec run: the datetime of the last patch
    patchExc,  \* codec run: what the last patch raised ("" when it returned)
    npatch,    \* codec run: patches made
    margs,     \* main: args.files
    mexpire,   \* main: args.set_expire, None or the string given
    mquiet,    \* main: args.quiet
    mpc,       \* main: "parse", "set_expire", "print", "done", "aborted", "off"
    midx,      \* main: the position in args.files of cache_file
    mcur,      \* main: hdr, key, http_header, http_body of this iteration
    mout,      \* main: what was printed to stdout, one entry per file
    mlog,      \* history: the parses and the writes of main, in order
    fs0,       \* history: the files when main started
    cop,       \* concurrent run: process -> the call it makes, [kind, dt]
    cpc,       \* concurrent run: process -> where it is in its call
    cdata,     \* concurrent run: process -> bytes read, or written and not yet flushed
    cout       \* concurrent run: process -> what its call returned or raised

codecVars == <<cphase, res, res0, orig, target, patchExc, npatch>>

mainVars == <<margs, mexpire, mquiet, mpc, midx, mcur, mout, mlog, fs0>>

concVars == <<cop, cpc, cdata, cout>>

vars == <<tz, fs, codecVars, mainVars, concVars>>

\* Patches made in one codec run.
MaxPatches == 1

\* Files named on one command line.
MaxFiles == 2

File(d) == [exists |-> TRUE, data |-> d]

Missing == [exists |-> FALSE, data |-> <<>>]

NoResult == ParseRaise("", FALSE)

NoTarget == [days |-> 0, sod |-> 0, us |-> 0]

\* main is not running.
MainOff ==
    /\ margs = <<>>
    /\ mexpire = None
    /\ mquiet = FALSE
    /\ mpc = "off"
    /\ midx = 0
    /\ mcur = NoResult
    /\ mout = <<>>
    /\ mlog = <<>>
    /\ fs0 = fs

\* No concurrent run.
ConcOff ==
    /\ cop = <<>>
    /\ cpc = <<>>
    /\ cdata = <<>>
    /\ cout = <<>>

\* No codec run.
CodecOff ==
    /\ cphase = "off"
    /\ res = NoResult
    /\ res0 = NoResult
    /\ orig = <<>>
    /\ target = NoTarget
    /\ patchExc = ""
    /\ npatch = 0

CodecInit ==
    /\ tz \in TimeZones
    /\ fs \in { [n \in {"a"} |-> File(d)] : d \in InputFiles }
    /\ cphase = "start"
    /\ res = NoResult
    /\ res0 = NoResult
    /\ orig = <<>>
    /\ target = NoTarget
    /\ patchExc = ""
    /\ npatch = 0
    /\ MainOff
    /\ ConcOff

\* parse_nginx_cache_file("a")
Decode ==
    /\ cphase \in {"start", "patched"}
    /\ res' = parse_nginx_cache_file(fs["a"].data, tz)
    /\ cphase' = IF cphase = "start" THEN "parsed" ELSE "reparsed"
    /\ UNCHANGED <<tz, fs, res0, orig, target, patchExc, npatch, mainVars, concVars>>

\* set_expire_nginx_cache_file("a", dt)
Patch(dt) ==
    /\ cphase \in {"parsed", "reparsed"}
    /\ npatch < MaxPatches
    /\ LET r == set_expire_nginx_cache_file(fs["a"].data, dt, tz)
       IN  /\ fs' = [fs EXCEPT !["a"] = File(r.data)]
           /\ patchExc' = r.exc
    /\ orig' = fs["a"].data
    /\ res0' = res
    /\ target' = dt
    /\ npatch' = npatch + 1
    /\ cphase' = "patched"
    /\ UNCHANGED <<tz, res, mainVars, concVars>>

CodecNext == Decode \/ \E dt \in TargetInstants : Patch(dt)

SpecCodec == CodecInit /\ [][CodecNext]_vars

-----------------------------------------------------------------------------
(* main(): one run of the command line.                                    *)

MainNames == {"a", "b"}

\* A decodable file, one with non-zero padding and another valid_sec, one of
\* version 4, one with a bad key delimiter, and no file at all.
MainFiles ==
    { File(MkFile(BaseFile)),
      File(MkFile([BaseFile EXCEPT !.pad = <<0, 0, 1, 0>>, !.valid_sec = NumOfInt(60, 8)])),
      File(MkFile([BaseFile EXCEPT !.version = NumOfInt(4, 8)])),
      File(MkFile([BaseFile EXCEPT !.key_region = KeyPrefix \o <<97, 98, 99, 13>>])),
      Missing }

\* "2023-11-14T22:13:20", "2023-11-14", "1969-12-31", "2023-02-30", ""
DateStrings ==
    { <<"2", "0", "2", "3", "-", "1", "1", "-", "1", "4", "T",
        "2", "2", ":", "1", "3", ":", "2", "0">>,
      <<"2", "0", "2", "3", "-", "1", "1", "-", "1", "4">>,
      <<"1", "9", "6", "9", "-", "1", "2", "-", "3", "1">>,
      <<"2", "0", "2", "3", "-", "0", "2", "-", "3", "0">>,
      <<>> }

ArgLists == UNION { [1..n -> MainNames] : n \in 1..MaxFiles }

MainInit ==
    /\ tz \in TimeZones
    /\ fs \in [MainNames -> MainFiles]
    /\ margs \in ArgLists
    /\ mexpire \in {None} \cup { Some(x) : x \in DateStrings }
    /\ mquiet \in BOOLEAN
    /\ mpc = "parse"
    /\ midx = 1
    /\ mcur = NoResult
    /\ mout = <<>>
    /\ mlog = <<>>
    /\ fs0 = fs
    /\ CodecOff
    /\ ConcOff

cache_file == margs[midx]

Event(op, exc) ==
    [op |-> op, idx |-> midx, file |-> cache_file, exc |-> exc,
     before |-> fs[cache_file]]

\* A slip of main: what parse_nginx_cache_file raises is caught and passed over.
AfterParseSwallowed(exc) == "set_expire"

\* An exception parse_nginx_cache_file raises leaves main: nothing catches it.
AfterParse(exc) == IF exc # "" THEN "aborted" ELSE "set_expire"

\* open(cache_file, 'rb') of parse_nginx_cache_file, then the decoding.
ParseFile(f) ==
    IF ~f.exists THEN ParseRaise("FileNotFoundError", FALSE)
    ELSE parse_nginx_cache_file(f.data, tz)

\* hdr, key, http_header, http_body = parse_nginx_cache_file(cache_file)
MainParse ==
    /\ mpc = "parse"
    /\ LET r == ParseFile(fs[cache_file])
       IN  /\ mcur' = r
           /\ mpc' = AfterParse(r.exc)
           /\ mlog' = Append(mlog, Event("parse", r.exc))
    /\ UNCHANGED <<tz, fs, margs, mexpire, mquiet, midx, mout, fs0, codecVars, concVars>>

\* if args.set_expire: a string that is not empty
SetExpireGiven == mexpire # None /\ mexpire[1] # <<>>

\* set_expire = parse_date_string(args.set_expire)
\* set_expire_nginx_cache_file(cache_file, set_expire)
MainSetExpire ==
    /\ mpc = "set_expire"
    /\ IF ~SetExpireGiven
       THEN /\ mpc' = "print"
            /\ UNCHANGED <<fs, mlog>>
       ELSE LET dt == parse_date_string(mexpire[1])
                f  == fs[cache_file]
                w  == set_expire_nginx_cache_file(f.data, dt.val, tz)
            IN  IF dt.exc # ""
                THEN /\ mpc' = "aborted"
                     /\ UNCHANGED <<fs, mlog>>
                ELSE IF ~f.exists
                THEN /\ mpc' = "aborted"
                     /\ UNCHANGED <<fs, mlog>>
                ELSE IF w.exc # ""
                THEN /\ mpc' = "aborted"
                     /\ UNCHANGED <<fs, mlog>>
                ELSE /\ mpc' = "print"
                     /\ fs' = [fs EXCEPT ![cache_file] = File(w.data)]
                     /\ mlog' = Append(mlog, Event("write", ""))
    /\ UNCHANGED <<tz, margs, mexpire, mquiet, midx, mcur, mout, fs0, codecVars, concVars>>

Whitespace == {9, 10, 11, 12, 13, 32}

\* str.strip()
Strip(t) ==
    LET keep == { i \in 1..Len(t) : t[i] \notin Whitespace }
        lo   == CHOOSE i \in keep : \A j \in keep : i <= j
        hi   == CHOOSE i \in keep : \A j \in keep : j <= i
    IN  IF keep = {} THEN <<>> ELSE SubSeq(t, lo, hi)

\* if not args.quiet: the header, the key, the headers and the body's length
\* are printed; then the next file.
MainPrint ==
    /\ mpc = "print"
    /\ mout' = IF mquiet THEN mout
               ELSE Append(mout, [idx |-> midx, file |-> cache_file, hdr |-> mcur.hdr,
                                  key |-> mcur.key,
                                  http_header |-> Strip(mcur.http_header),
                                  body_len |-> Len(mcur.http_body)])
    /\ IF midx < Len(margs)
       THEN /\ midx' = midx + 1
            /\ mpc' = "parse"
       ELSE /\ mpc' = "done"
            /\ UNCHANGED midx
    /\ UNCHANGED <<tz, fs, margs, mexpire, mquiet, mcur, mlog, fs0, codecVars, concVars>>

MainNext == MainParse \/ MainSetExpire \/ MainPrint

SpecMain == MainInit /\ [][MainNext]_vars

-----------------------------------------------------------------------------
(* Two processes, each making one call on the same file "a".  A step is    *)
(* one system call: open, read, write, close.  f.write() of a file opened  *)
(* 'r+b' fills the buffer of the file object, which close() flushes.       *)

Procs == {1, 2}

Calls ==
    {[kind |-> "parse", dt |-> NoTarget]}
    \cup {[kind |-> "patch", dt |-> t] : t \in TargetInstants}

ConcFiles ==
    { MkFile(BaseFile), MkFile([BaseFile EXCEPT !.valid_sec = NumOfInt(60, 8)]) }

ConcInit ==
    /\ tz \in TimeZones
    /\ fs \in { [n \in {"a"} |-> File(d)] : d \in ConcFiles }
    /\ cop \in [Procs -> Calls]
    /\ cpc = [p \in Procs |-> "open"]
    /\ cdata = [p \in Procs |-> <<>>]
    /\ cout = [p \in Procs |-> NoResult]
    /\ CodecOff
    /\ MainOff

\* open(cache_file, 'rb') or open(cache_file, 'r+b'): no lock is taken.
POpen(p) ==
    /\ cpc[p] = "open"
    /\ cpc' = [cpc EXCEPT ![p] = IF cop[p].kind = "parse" THEN "read" ELSE "seek"]
    /\ UNCHANGED <<tz, fs, cop, cdata, cout, codecVars, mainVars>>

\* d = f.read()
PRead(p) ==
    /\ cpc[p] = "read"
    /\ cdata' = [cdata EXCEPT ![p] = fs["a"].data]
    /\ cpc' = [cpc EXCEPT ![p] = "close"]
    /\ UNCHANGED <<tz, fs, cop, cout, codecVars, mainVars>>

\* f.seek(8)
PSeek(p) ==
    /\ cpc[p] = "seek"
    /\ cpc' = [cpc EXCEPT ![p] = "write"]
    /\ UNCHANGED <<tz, fs, cop, cdata, cout, codecVars, mainVars>>

\* f.write(struct.pack('<Q', valid_sec)): the bytes are buffered, or pack raises.
PWrite(p) ==
    /\ cpc[p] = "write"
    /\ LET packed == pack_Q(mktime(cop[p].dt, tz))
       IN  /\ cdata' = [cdata EXCEPT ![p] = packed.val]
           /\ cout' = [cout EXCEPT ![p] = ParseRaise(packed.exc, FALSE)]
    /\ cpc' = [cpc EXCEPT ![p] = "close"]
    /\ UNCHANGED <<tz, fs, cop, codecVars, mainVars>>

\* The end of the with block: the buffer is flushed at offset 8 and the file closed.
PClose(p) ==
    /\ cpc[p] = "close"
    /\ IF cop[p].kind = "patch" /\ cdata[p] # <<>>
       THEN fs' = [fs EXCEPT !["a"] = File(WriteAt(fs["a"].data, 8, cdata[p]))]
       ELSE UNCHANGED fs
    /\ cpc' = [cpc EXCEPT ![p] = IF cop[p].kind = "parse" THEN "decode" ELSE "done"]
    /\ UNCHANGED <<tz, cop, cdata, cout, codecVars, mainVars>>

\* The decoding of the bytes read, after the file is closed.
PDecode(p) ==
    /\ cpc[p] = "decode"
    /\ cout' = [cout EXCEPT ![p] = parse_nginx_cache_file(cdata[p], tz)]
    /\ cpc' = [cpc EXCEPT ![p] = "done"]
    /\ UNCHANGED <<tz, fs, cop, cdata, codecVars, mainVars>>

ConcNext ==
    \E p \in Procs :
        POpen(p) \/ PRead(p) \/ PSeek(p) \/ PWrite(p) \/ PClose(p) \/ PDecode(p)

SpecConc == ConcInit /\ [][ConcNext]_vars

-----------------------------------------------------------------------------
(* Properties of the codec, under SpecCodec.                               *)

\* The bytes of the file now.
D == fs["a"].data

\* res is what parse_nginx_cache_file makes of D.
Decoded == cphase \in {"parsed", "reparsed"}

\* The fields of the documented layout, read off the file's bytes.
VersionField(d) == SubSeq(d, 1, 8)

HeaderStartField(d) == d[55] + 256 * d[56]

BodyStartField(d) == d[57] + 256 * d[58]

\* dt is at or after the epoch in the zone z.
NotBeforeEpoch(dt, z) ==
    \/ dt.days > EpochDays + 1
    \/ /\ dt.days >= EpochDays - 1
       /\ (dt.days - EpochDays) * SecondsPerDay + dt.sod - z >= 0

\* The bytes of d and e agree outside offsets [8, 16) and d, e are as long.
SameOutsideExpiry(d, e) ==
    /\ Len(d) = Len(e)
    /\ \A i \in 1..Len(d) : (i <= 8 \/ i > 16) => d[i] = e[i]

\* After a patch to the datetime target of a file that decoded to res0, the
\* file decodes to res0 with valid_sec = target in whole seconds, and only
\* bytes [8, 16) of the file differ.
PatchedAndDecoded ==
    /\ patchExc = ""
    /\ res.exc = ""
    /\ res.hdr.valid_sec = Some([target EXCEPT !.us = 0])
    /\ SameOutsideExpiry(D, orig)
    /\ [res.hdr EXCEPT !.valid_sec = None] = [res0.hdr EXCEPT !.valid_sec = None]
    /\ res.key = res0.key
    /\ res.http_header = res0.http_header
    /\ res.http_body = res0.http_body

\* How far C1 holds: for a decodable file whose body starts at or after
\* byte 16 and a target instant at or after the epoch.
PatchRoundTripInRange ==
    (/\ cphase = "reparsed" /\ res0.exc = ""
     /\ NotBeforeEpoch(target, tz)
     /\ BodyStartField(orig) >= 16)
        => PatchedAndDecoded

\* C1: for every file that parse_nginx_cache_file decodes and every target
\* instant, set_expire_nginx_cache_file followed by parse_nginx_cache_file
\* yields a header whose valid_sec is the target in whole seconds of local
\* time; every byte outside [8, 16) and the length of the file are
\* unchanged, and every other field, the key, the header text and the body
\* are as before.
C1_PatchRoundTrip ==
    (cphase = "reparsed" /\ res0.exc = "") => PatchedAndDecoded

\* Every field of the header but vary_len is decoded from its place in the
\* layout: eleven little-endian integers in bytes [0, 59), etag in
\* [59, 187), vary in [188, 316), variant in [316, 332).
LayoutExceptVaryLen ==
    (Decoded /\ res.exc = "") =>
        /\ res.hdr.version = SubSeq(D, 1, 8)
        /\ res.hdr.valid_sec = datetime_or_none(SubSeq(D, 9, 16), tz).val
        /\ res.hdr.updating_sec = SubSeq(D, 17, 24)
        /\ res.hdr.error_sec = SubSeq(D, 25, 32)
        /\ res.hdr.last_modified = datetime_or_none(SubSeq(D, 33, 40), tz).val
        /\ res.hdr.date = datetime_or_none(SubSeq(D, 41, 48), tz).val
        /\ res.hdr.crc32 = SubSeq(D, 49, 52)
        /\ res.hdr.valid_msec = D[53] + 256 * D[54]
        /\ res.hdr.header_start = HeaderStartField(D)
        /\ res.hdr.body_start = BodyStartField(D)
        /\ res.hdr.etag_len = D[59]
        /\ res.hdr.etag = string_or_none(SubSeq(D, 60, 187)).val
        /\ res.hdr.vary = string_or_none(SubSeq(D, 189, 316)).val
        /\ res.hdr.variant = string_or_none(SubSeq(D, 317, 332)).val

\* C2: every field of a decoded header comes from its place in the
\* documented layout; in particular vary_len is the byte at offset 187.
C2_Layout ==
    /\ LayoutExceptVaryLen
    /\ (Decoded /\ res.exc = "") => res.hdr.vary_len = D[188]

\* C3, as amended: a file of at least 59 bytes whose version field is not 5
\* fails with the unsupported-version error, whatever its other bytes are;
\* a file whose version field is 5 never fails with that error.
C3_Version ==
    Decoded =>
        /\ (Len(D) >= 59 /\ VersionField(D) # NumOfInt(5, 8)) => res.exc = "Exception"
        /\ (Len(D) >= 8 /\ VersionField(D) = NumOfInt(5, 8)) => res.exc # "Exception"

\* C3 witness: version 2^64 - 1 in a file whose etag is not ASCII and whose
\* valid_sec is out of range is refused for its version.
C3_Witness ==
    /\ Decoded /\ Len(D) >= 336 /\ VersionField(D) = timet_max
    /\ D[60] >= 128 /\ SubSeq(D, 9, 16) \in BigTimes
    /\ res.exc = "Exception"

\* C3 as stated: every file with a version field other than 5 fails with
\* the unsupported-version error.
C3_Original ==
    Decoded =>
        /\ (Len(D) >= 8 /\ VersionField(D) # NumOfInt(5, 8)) => res.exc = "Exception"
        /\ (Len(D) >= 8 /\ VersionField(D) = NumOfInt(5, 8)) => res.exc # "Exception"

\* C4: a record is returned only when
\* 336 <= header_start <= body_start <= file length.
C4_Offsets ==
    (Decoded /\ res.exc = "") =>
        /\ NGINX_CACHE_HEADER_SIZE <= HeaderStartField(D)
        /\ HeaderStartField(D) <= BodyStartField(D)
        /\ BodyStartField(D) <= Len(D)

\* The key region: the bytes of the file in [336, header_start).
KeyRegion == Slice(D, NGINX_CACHE_HEADER_SIZE, HeaderStartField(D))

\* C5: parse_nginx_cache_file returns only if the key region is ASCII,
\* begins with "\nKEY: " and ends with "\n"; the key returned is the region
\* without its first 6 characters and its last one.
C5_KeyDelimiters ==
    (Decoded /\ res.exc = "") =>
        /\ \A i \in 1..Len(KeyRegion) : KeyRegion[i] < 128
        /\ Len(KeyRegion) >= 7
        /\ \A i \in 1..6 : KeyRegion[i] = KeyPrefix[i]
        /\ KeyRegion[Len(KeyRegion)] = 10
        /\ Len(res.key) = Len(KeyRegion) - 7
        /\ \A i \in 1..Len(res.key) : res.key[i] = KeyRegion[i + 6]

\* C5 witness: a key region of more than the two delimiters, running to the
\* end of a file shorter than header_start, is decoded.
C5_Witness ==
    /\ Decoded /\ res.exc = ""
    /\ HeaderStartField(D) > Len(D)
    /\ Len(res.key) > 3

\* b without its trailing zero bytes.
StripZeros(b) ==
    SubSeq(b, 1, CHOOSE n \in 0..Len(b) :
                    /\ \A i \in (n+1)..Len(b) : b[i] = 0
                    /\ (n > 0 => b[n] # 0))

\* An all-zero buffer is absent; another is its text without the padding.
TextOf(b) == IF \A i \in 1..Len(b) : b[i] = 0 THEN None ELSE Some(StripZeros(b))

\* C6: each of etag, vary and variant decodes to absent from an all-zero
\* buffer, and else to the buffer's text with the trailing zero bytes
\* stripped.
C6_TextFields ==
    (Decoded /\ res.exc = "") =>
        /\ res.hdr.etag = TextOf(SubSeq(D, 60, 187))
        /\ res.hdr.vary = TextOf(SubSeq(D, 189, 316))
        /\ res.hdr.variant = TextOf(SubSeq(D, 317, 332))

\* The instant t seconds after the epoch: the local datetime at it.
IsInstant(v, t) == v # None /\ mktime(v[1], tz) = [neg |-> FALSE, mag |-> t]

InstantOrAbsent(v, t) == IF t = timet_max THEN v = None ELSE IsInstant(v, t)

\* C7: of valid_sec, last_modified and date, the value 2^64 - 1 decodes to
\* absent and every other value decodes, without failing, to the instant
\* that many seconds after the epoch.
C7_Instants ==
    (Decoded /\ Len(D) >= 59 /\ VersionField(D) = NumOfInt(5, 8)) =>
        /\ res.exc \notin {"OverflowError", "ValueError"}
        /\ res.exc = "" =>
            /\ InstantOrAbsent(res.hdr.valid_sec, SubSeq(D, 9, 16))
            /\ InstantOrAbsent(res.hdr.last_modified, SubSeq(D, 33, 40))
            /\ InstantOrAbsent(res.hdr.date, SubSeq(D, 41, 48))

-----------------------------------------------------------------------------
(* Properties of main, under SpecMain.                                     *)

Terminated == mpc \in {"done", "aborted"}

\* The file at position k of the command line was attempted.
Attempted(k) == \E i \in 1..Len(mlog) : mlog[i].op = "parse" /\ mlog[i].idx = k

\* C8: a fatal error on the file at one position aborts only that file:
\* when the run ends, the file at every position has been attempted.
C8_EveryFileAttempted ==
    Terminated => \A k \in 1..Len(margs) : Attempted(k)

\* The date strings of DateStrings that name a date: all but "2023-02-30"
\* and the empty string.
DateNamed ==
    /\ mexpire # None
    /\ Len(mexpire[1]) >= 10
    /\ SubSeq(mexpire[1], 6, 10) # <<"0", "2", "-", "3", "0">>

\* C10: with --set-expire, a file is written only after the parse of that
\* file in the same iteration has returned and the date string has been
\* accepted; a file whose decode raises is left as it was; when the date
\* string names no date no file is modified; and the header printed for a
\* file is the one decoded before its patch.
C10_ParseBeforeWrite ==
    /\ \A j \in 1..Len(mlog) :
          mlog[j].op = "write" =>
              /\ DateNamed
              /\ j > 1
              /\ mlog[j-1].op = "parse"
              /\ mlog[j-1].idx = mlog[j].idx
              /\ mlog[j-1].file = mlog[j].file
              /\ mlog[j-1].exc = ""
              /\ mlog[j-1].before = mlog[j].before
    /\ \A j \in 1..Len(mlog) :
          (mlog[j].op = "parse" /\ mlog[j].exc # "") =>
              /\ fs[mlog[j].file] = mlog[j].before
              /\ \A i \in 1..Len(mlog) : mlog[i].op = "write" => i < j
    /\ \A n \in MainNames :
          fs[n] # fs0[n] => \E j \in 1..Len(mlog) : mlog[j].op = "write" /\ mlog[j].file = n
    /\ (~DateNamed) => fs = fs0
    /\ \A k \in 1..Len(mout) :
          \E j \in 1..Len(mlog) :
              /\ mlog[j].op = "parse" /\ mlog[j].idx = mout[k].idx
              /\ mlog[j].exc = ""
              /\ mout[k].hdr.valid_sec
                    = datetime_or_none(SubSeq(mlog[j].before.data, 9, 16), tz).val

\* C10 witness: a run over two files that ended, both written and both
\* printed, the first printed with a valid_sec its file no longer holds.
C10_Witness ==
    /\ mpc = "done"
    /\ Len(margs) = 2 /\ margs[1] # margs[2]
    /\ Len(mout) = 2
    /\ \A n \in MainNames : fs[n] # fs0[n]
    /\ mout[1].hdr.valid_sec
          # datetime_or_none(SubSeq(fs[margs[1]].data, 9, 16), tz).val

-----------------------------------------------------------------------------
(* Properties of concurrent calls, under SpecConc.                         *)

\* p is a patcher between its open and its close.
PatcherHolds(p) == cop[p].kind = "patch" /\ cpc[p] \in {"seek", "write", "close"}

\* The step is q's open, its read, or the write of its flush.
AccessBy(q) ==
    /\ cpc'[q] # cpc[q]
    /\ \/ cpc[q] \in {"open", "read"}
       \/ cpc[q] = "close" /\ cop[q].kind = "patch" /\ cdata[q] # <<>>

\* C9: between a patcher's open and its close no other process opens, reads
\* or writes the file.
C9_Exclusive ==
    [][\A p \in Procs : \A q \in Procs \ {p} : PatcherHolds(p) => ~AccessBy(q)]_vars

=============================================================================
